---- MODULE Spec2Model ----
(***************************************************************************)
(* django-predicate: evaluation of P predicates (Q-like boolean trees of   *)
(* lookup/value pairs) against in-memory model instances.                  *)
(*                                                                         *)
(* Python strings are tuples of character codes, so that str.lower(),      *)
(* str.split(LOOKUP_SEP) and LOOKUP_SEP.join() are computed, not assumed.  *)
(* A call either returns "True" / "False" or ends in the name of the       *)
(* exception it raises.                                                    *)
(***************************************************************************)
EXTENDS Integers, Sequences, FiniteSets, TLC

VARIABLES
  subject,    \* what the client works on: "P", "LookupNode", "LookupEvaluator"
  dictorder,  \* the order in which the interpreter iterates a dict: "asc", "desc"
  mixedorder, \* what the interpreter makes of x < y on values of different
              \* types: "bytype" (Python 2) or "TypeError" (Python 3)
  graph,      \* the object graph of the instance predicates are evaluated against
  pred,       \* the P object built so far
  ret,        \* what pred.eval(instance) returned or raised ("none": not called)
  tree,       \* the LookupNode built so far
  tret,       \* what tree.eval(instance) returned or raised
  dispatched, \* the comparison names that call of tree.eval looked up
  ev,         \* the LookupEvaluator: [lookup, value]
  args,       \* the values passed to its comparison function
  out         \* what the comparison function returned or raised

vars == <<subject, dictorder, mixedorder, graph, pred, ret,
          tree, tret, dispatched, ev, args, out>>

-----------------------------------------------------------------------------
(* Bounds of the model.                                                    *)

\* longest value sequence passed to a comparison function
MaxValues == 2
\* most (lookup, value) pairs stored into one LookupNode
MaxLookups == 2
\* most related objects behind the to-many relation `rel`
MaxRelated == 2
\* most children of one P node
MaxChildren == 2

-----------------------------------------------------------------------------
(* Python strings.                                                         *)

Code ==
  [
     a |-> 97, b |-> 98, c |-> 99, d |-> 100, e |-> 101, f |-> 102, g |-> 103, h |-> 104,
     i |-> 105, j |-> 106, k |-> 107, l |-> 108, m |-> 109, n |-> 110, o |-> 111, p |-> 112,
     q |-> 113, r |-> 114, s |-> 115, t |-> 116, u |-> 117, v |-> 118, w |-> 119, x |-> 120,
     y |-> 121, z |-> 122, A |-> 65, B |-> 66, C |-> 67, D |-> 68, E |-> 69, F |-> 70,
     G |-> 71, H |-> 72, I |-> 73, J |-> 74, K |-> 75, L |-> 76, M |-> 77, N |-> 78,
     O |-> 79, P |-> 80, Q |-> 81, R |-> 82, S |-> 83, T |-> 84, U |-> 85, V |-> 86,
     W |-> 87, X |-> 88, Y |-> 89, Z |-> 90
  ]

Ord(c) == IF c = "_" THEN 95 ELSE Code[c]

\* the str written with the characters t
Py(t) == [i \in 1..Len(t) |-> Ord(t[i])]

\* str.lower() on one character (ASCII)
LowerChar(c) == IF c >= 65 /\ c <= 90 THEN c + 32 ELSE c

lower(s) == [i \in 1..Len(s) |-> LowerChar(s[i])]

\* `p in s` for two str
IsSubstring(p, s) ==
  \E i \in 0..(Len(s) - Len(p)) : SubSeq(s, i + 1, i + Len(p)) = p

startswith(s, p) == Len(p) <= Len(s) /\ SubSeq(s, 1, Len(p)) = p

endswith(s, p) ==
  Len(p) <= Len(s) /\ SubSeq(s, Len(s) - Len(p) + 1, Len(s)) = p

\* s < t for two str: lexicographic on character codes
StrLess(s, t) ==
  \E i \in 1..(Len(t)) :
     /\ \A j \in 1..(i - 1) : j <= Len(s) /\ s[j] = t[j]
     /\ (i > Len(s) \/ s[i] < t[i])

LOOKUP_SEP == Py(<<"_", "_">>)

-----------------------------------------------------------------------------
(* Python values: [t: type name, v: scalar payload, l: items of a list].   *)

None == [t |-> "None", v |-> <<>>, l |-> <<>>]
PyStr(s) == [t |-> "str", v |-> s, l |-> <<>>]
\* int; True and False are the ints 1 and 0
PyInt(n) == [t |-> "int", v |-> <<n>>, l |-> <<>>]
PyDate(y, m, d) == [t |-> "date", v |-> <<y, m, d>>, l |-> <<>>]
PyList(items) == [t |-> "list", v |-> <<>>, l |-> items]
\* a model instance, named by its place in the object graph
PyObj(id) == [t |-> "obj", v |-> <<id>>, l |-> <<>>]

UNDEFINED == [t |-> "UNDEFINED", v |-> <<>>, l |-> <<>>]
GET == [t |-> "GET", v |-> <<>>, l |-> <<>>]

\* bool(x)
Truthy(x) ==
  CASE x.t = "None" -> FALSE
    [] x.t = "int" -> x.v[1] # 0
    [] x.t = "str" -> Len(x.v) > 0
    [] x.t = "list" -> Len(x.l) > 0
    [] OTHER -> TRUE

B(b) == IF b THEN "True" ELSE "False"

\* any(...) over the outcomes of a generator: the first element that is
\* true, or that raises, ends the iteration
any(outs) ==
  IF \E i \in DOMAIN outs : outs[i] # "False"
  THEN outs[CHOOSE i \in DOMAIN outs :
              outs[i] # "False" /\ \A j \in 1..(i - 1) : outs[j] = "False"]
  ELSE "False"

\* all(...): the first element that is false, or that raises, ends it
all(outs) ==
  IF \E i \in DOMAIN outs : outs[i] # "True"
  THEN outs[CHOOSE i \in DOMAIN outs :
              outs[i] # "True" /\ \A j \in 1..(i - 1) : outs[j] = "True"]
  ELSE "True"

\* `a and b` on outcomes, b evaluated only if a is true
AndThen(a, b) == IF a = "True" THEN b ELSE a

\* x < y. Dates compare with dates only. Values of different types order as
\* None < numbers < other types by type name under Python 2, and raise
\* TypeError under Python 3.
TypeRank(x) ==
  CASE x.t = "None" -> 0
    [] x.t = "int" -> 1
    [] x.t = "list" -> 2
    [] x.t = "str" -> 3

DateLess(a, b) ==
  \/ a[1] < b[1]
  \/ a[1] = b[1] /\ a[2] < b[2]
  \/ a[1] = b[1] /\ a[2] = b[2] /\ a[3] < b[3]

Less(x, y) ==
  CASE x.t = "date" /\ y.t = "date" -> B(DateLess(x.v, y.v))
    [] (x.t = "date") # (y.t = "date") -> "TypeError"
    [] x.t = "int" /\ y.t = "int" -> B(x.v[1] < y.v[1])
    [] x.t = "str" /\ y.t = "str" -> B(StrLess(x.v, y.v))
    [] OTHER -> IF mixedorder = "TypeError" THEN "TypeError"
                ELSE B(TypeRank(x) < TypeRank(y))

LessEq(x, y) ==
  IF x = y
  THEN IF x.t = "None" /\ mixedorder = "TypeError" THEN "TypeError" ELSE "True"
  ELSE Less(x, y)

\* x[i] for a list or a str: whether it raises, and the item if it does not
IndexOutcome(x, i) ==
  CASE x.t = "list" -> IF i + 1 <= Len(x.l) THEN "ok" ELSE "IndexError"
    [] x.t = "str" -> IF i + 1 <= Len(x.v) THEN "ok" ELSE "IndexError"
    [] OTHER -> "TypeError"

Index(x, i) == IF x.t = "list" THEN x.l[i + 1] ELSE PyStr(<<x.v[i + 1]>>)

\* datetime.date.isoweekday(): Monday is 1, Sunday is 7
MonthOffset == <<0, 3, 2, 5, 0, 3, 5, 1, 4, 6, 2, 4>>

isoweekday(d) ==
  LET y == IF d[2] < 3 THEN d[1] - 1 ELSE d[1]
      w == (y + (y \div 4) - (y \div 100) + (y \div 400)
              + MonthOffset[d[2]] + d[3]) % 7
  IN IF w = 0 THEN 7 ELSE w

-----------------------------------------------------------------------------
(* QUERY_TERMS                                                             *)

q_exact == Py(<<"e", "x", "a", "c", "t">>)
q_iexact == Py(<<"i", "e", "x", "a", "c", "t">>)
q_contains == Py(<<"c", "o", "n", "t", "a", "i", "n", "s">>)
q_icontains == Py(<<"i", "c", "o", "n", "t", "a", "i", "n", "s">>)
q_gt == Py(<<"g", "t">>)
q_gte == Py(<<"g", "t", "e">>)
q_lt == Py(<<"l", "t">>)
q_lte == Py(<<"l", "t", "e">>)
q_in == Py(<<"i", "n">>)
q_startswith == Py(<<"s", "t", "a", "r", "t", "s", "w", "i", "t", "h">>)
q_istartswith == Py(<<"i", "s", "t", "a", "r", "t", "s", "w", "i", "t", "h">>)
q_endswith == Py(<<"e", "n", "d", "s", "w", "i", "t", "h">>)
q_iendswith == Py(<<"i", "e", "n", "d", "s", "w", "i", "t", "h">>)
q_range == Py(<<"r", "a", "n", "g", "e">>)
q_year == Py(<<"y", "e", "a", "r">>)
q_month == Py(<<"m", "o", "n", "t", "h">>)
q_day == Py(<<"d", "a", "y">>)
q_week_day == Py(<<"w", "e", "e", "k", "_", "d", "a", "y">>)
q_isnull == Py(<<"i", "s", "n", "u", "l", "l">>)
q_search == Py(<<"s", "e", "a", "r", "c", "h">>)
q_regex == Py(<<"r", "e", "g", "e", "x">>)
q_iregex == Py(<<"i", "r", "e", "g", "e", "x">>)

QUERY_TERMS ==
  { q_exact, q_iexact, q_contains, q_icontains, q_gt, q_gte,
     q_lt, q_lte, q_in, q_startswith, q_istartswith, q_endswith,
     q_iendswith, q_range, q_year, q_month, q_day, q_week_day,
     q_isnull, q_search, q_regex, q_iregex }

-----------------------------------------------------------------------------
(* class LookupEvaluator: self is [lookup, value]; every comparison        *)
(* function takes the sequence of values to test.                          *)

LookupEvaluator(expr) == [lookup |-> expr[1], value |-> expr[2]]

_exact(self, values) == B(\E i \in DOMAIN values : values[i] = self.value)

_iexact(self, values) ==
  IF self.value.t # "str" THEN "AttributeError"
  ELSE LET expected == lower(self.value.v) IN
       any([i \in DOMAIN values |->
              IF values[i] = None THEN "False"
              ELSE IF values[i].t # "str" THEN "AttributeError"
              ELSE B(expected = lower(values[i].v))])

_contains(self, values) ==
  any([i \in DOMAIN values |->
         IF values[i] = None THEN "False"
         ELSE IF values[i].t # "str" \/ self.value.t # "str" THEN "TypeError"
         ELSE B(IsSubstring(self.value.v, values[i].v))])

_icontains(self, values) ==
  IF self.value.t # "str" THEN "AttributeError"
  ELSE LET expected == lower(self.value.v) IN
       any([i \in DOMAIN values |->
              IF values[i] = None THEN "False"
              ELSE IF values[i].t # "str" THEN "TypeError"
              ELSE B(IsSubstring(expected, values[i].v))])

_gt(self, values) ==
  any([i \in DOMAIN values |->
         IF values[i] = None THEN "False" ELSE Less(self.value, values[i])])

_gte(self, values) ==
  any([i \in DOMAIN values |->
         IF values[i] = None THEN "False" ELSE LessEq(self.value, values[i])])

_lt(self, values) ==
  any([i \in DOMAIN values |->
         IF values[i] = None THEN "False" ELSE Less(values[i], self.value)])

_lte(self, values) ==
  any([i \in DOMAIN values |->
         IF values[i] = None THEN "False" ELSE LessEq(values[i], self.value)])

_startswith(self, values) ==
  any([i \in DOMAIN values |->
         IF values[i] = None THEN "False"
         ELSE IF values[i].t # "str" THEN "AttributeError"
         ELSE IF self.value.t # "str" THEN "TypeError"
         ELSE B(startswith(values[i].v, self.value.v))])

_istartswith(self, values) ==
  IF self.value.t # "str" THEN "AttributeError"
  ELSE LET expected_value == lower(self.value.v) IN
       any([i \in DOMAIN values |->
              IF values[i] = None THEN "False"
              ELSE IF values[i].t # "str" THEN "AttributeError"
              ELSE B(startswith(lower(values[i].v), expected_value))])

_endswith(self, values) ==
  any([i \in DOMAIN values |->
         IF values[i] = None THEN "False"
         ELSE IF values[i].t # "str" THEN "AttributeError"
         ELSE IF self.value.t # "str" THEN "TypeError"
         ELSE B(endswith(lower(values[i].v), self.value.v))])

_iendswith(self, values) ==
  IF self.value.t # "str" THEN "AttributeError"
  ELSE LET expected_value == lower(self.value.v) IN
       any([i \in DOMAIN values |->
              IF values[i] = None THEN "False"
              ELSE IF values[i].t # "str" THEN "AttributeError"
              ELSE B(endswith(lower(values[i].v), expected_value))])

\* set(self.value): the items of a list, the characters of a str
_in(self, values) ==
  CASE self.value.t = "list" ->
         B(\E i \in DOMAIN values, j \in DOMAIN self.value.l :
              values[i] = self.value.l[j])
    [] self.value.t = "str" ->
         B(\E i \in DOMAIN values, j \in DOMAIN self.value.v :
              values[i] = PyStr(<<self.value.v[j]>>))
    [] OTHER -> "TypeError"

\* self.value[0] < value < self.value[1]
_range(self, values) ==
  any([i \in DOMAIN values |->
         IF values[i] = None THEN "False"
         ELSE IF IndexOutcome(self.value, 0) # "ok"
              THEN IndexOutcome(self.value, 0)
         ELSE IF Less(Index(self.value, 0), values[i]) # "True"
              THEN Less(Index(self.value, 0), values[i])
         ELSE IF IndexOutcome(self.value, 1) # "ok"
              THEN IndexOutcome(self.value, 1)
         ELSE Less(values[i], Index(self.value, 1))])

_year(self, values) ==
  any([i \in DOMAIN values |->
         IF values[i] = None THEN "False"
         ELSE IF values[i].t # "date" THEN "AttributeError"
         ELSE B(PyInt(values[i].v[1]) = self.value)])

_month(self, values) ==
  any([i \in DOMAIN values |->
         IF values[i] = None THEN "False"
         ELSE IF values[i].t # "date" THEN "AttributeError"
         ELSE B(PyInt(values[i].v[2]) = self.value)])

_day(self, values) ==
  any([i \in DOMAIN values |->
         IF values[i] = None THEN "False"
         ELSE IF values[i].t # "date" THEN "AttributeError"
         ELSE B(PyInt(values[i].v[3]) = self.value)])

_week_day(self, values) ==
  any([i \in DOMAIN values |->
         IF values[i] = None THEN "False"
         ELSE IF values[i].t # "date" THEN "AttributeError"
         ELSE B(PyInt((isoweekday(values[i].v) % 7) + 1) = self.value)])

_isnull(self, values) ==
  IF Truthy(self.value)
  THEN B(\E i \in DOMAIN values : values[i] = None)
  ELSE B(~ \E i \in DOMAIN values : values[i] = None)

_search(self, values) == _contains(self, values)

\* re.compile(self.value).search(value), for patterns without
\* metacharacters: a search for the pattern as a substring
_regex(self, values) ==
  IF self.value.t # "str" THEN "TypeError"
  ELSE any([i \in DOMAIN values |->
              IF values[i] = None THEN "False"
              ELSE IF values[i].t # "str" THEN "TypeError"
              ELSE B(IsSubstring(self.value.v, values[i].v))])

_iregex(self, values) ==
  IF self.value.t # "str" THEN "TypeError"
  ELSE any([i \in DOMAIN values |->
              IF values[i] = None THEN "False"
              ELSE IF values[i].t # "str" THEN "TypeError"
              ELSE B(IsSubstring(lower(self.value.v), lower(values[i].v)))])

\* getattr(evaluator, '_' + query)(values)
comparison_func(query, self, values) ==
  CASE
         query = q_exact -> _exact(self, values)
      [] query = q_iexact -> _iexact(self, values)
      [] query = q_contains -> _contains(self, values)
      [] query = q_icontains -> _icontains(self, values)
      [] query = q_gt -> _gt(self, values)
      [] query = q_gte -> _gte(self, values)
      [] query = q_lt -> _lt(self, values)
      [] query = q_lte -> _lte(self, values)
      [] query = q_in -> _in(self, values)
      [] query = q_startswith -> _startswith(self, values)
      [] query = q_istartswith -> _istartswith(self, values)
      [] query = q_endswith -> _endswith(self, values)
      [] query = q_iendswith -> _iendswith(self, values)
      [] query = q_range -> _range(self, values)
      [] query = q_year -> _year(self, values)
      [] query = q_month -> _month(self, values)
      [] query = q_day -> _day(self, values)
      [] query = q_week_day -> _week_day(self, values)
      [] query = q_isnull -> _isnull(self, values)
      [] query = q_search -> _search(self, values)
      [] query = q_regex -> _regex(self, values)
      [] query = q_iregex -> _iregex(self, values)
      [] OTHER -> "AttributeError"

-----------------------------------------------------------------------------
(* class LookupComponent                                                   *)

EMPTY == <<>>

c_a == Py(<<"a">>)
c_b == Py(<<"b">>)
c_c == Py(<<"c">>)
c_name == Py(<<"n", "a", "m", "e">>)
c_rel == Py(<<"r", "e", "l">>)
c_val == Py(<<"v", "a", "l">>)

\* str.split(sep): cut at the leftmost occurrences of sep
RECURSIVE split(_, _)
split(s, sep) ==
  LET At(i) == \A j \in 1..Len(sep) : s[i + j - 1] = sep[j]
      cuts == {i \in 1..(Len(s) - Len(sep) + 1) : At(i)}
  IN IF cuts = {} THEN <<s>>
     ELSE LET i == CHOOSE c \in cuts : \A d \in cuts : c <= d
          IN <<SubSeq(s, 1, i - 1)>> \o split(SubSeq(s, i + Len(sep), Len(s)), sep)

\* sep.join(parts)
RECURSIVE join(_, _)
join(sep, parts) ==
  IF parts = <<>> THEN <<>>
  ELSE IF Len(parts) = 1 THEN parts[1]
  ELSE parts[1] \o sep \o join(sep, Tail(parts))

\* LookupComponent.parse(lookup)
parse(lookup) == IF lookup = <<>> THEN <<>> ELSE split(lookup, LOOKUP_SEP)

is_query(component) == component \in QUERY_TERMS

\* The object graph: instance[id] maps each field name of object id to what
\* getattr(obj, accessor) gives: [kind |-> "value", vals |-> <<v>>], a
\* related manager [kind |-> "Manager", vals |-> its .all()], or
\* [kind |-> "DoesNotExist", vals |-> <<>>] when the access raises
\* ObjectDoesNotExist. The root instance is object 1.
values_list(component, obj, instance) ==
  IF obj = None THEN <<None>>
  ELSE IF component = EMPTY THEN <<obj>>
  ELSE LET result == instance[obj.v[1]][component]
       IN CASE obj.t = "obj" /\ result.kind = "DoesNotExist" -> <<None>>
            [] obj.t = "obj" /\ result.kind = "Manager" -> result.vals
            [] obj.t = "obj" /\ result.kind = "value" -> <<result.vals[1]>>

-----------------------------------------------------------------------------
(* class LookupNode: self.children, a dict from LookupComponent to a child *)
(* LookupNode, or to the node's value under LookupComponent.EMPTY.         *)

\* every component a dict of the model can hold, in ascending order
ComponentOrder ==
  <<EMPTY, c_a, c_b, c_c, c_name, c_rel, c_val,
    q_exact, q_iexact, q_contains, q_icontains, q_gt, q_gte, q_lt, q_lte,
    q_in, q_startswith, q_istartswith, q_endswith, q_iendswith, q_range,
    q_year, q_month, q_day, q_week_day, q_isnull, q_search, q_regex,
    q_iregex>>

Reverse(s) == [i \in 1..Len(s) |-> s[Len(s) + 1 - i]]

RECURSIVE Concat(_)
Concat(ss) == IF Len(ss) = 0 THEN <<>> ELSE Head(ss) \o Concat(Tail(ss))

\* d[key] = value on a dict
SetKey(d, key, value) ==
  [k \in DOMAIN d \cup {key} |-> IF k = key THEN value ELSE d[k]]

\* the keys of a dict in the order the interpreter iterates them
InDictOrder(ks) == IF dictorder = "asc" THEN ks ELSE Reverse(ks)

Keys(d) == InDictOrder(SelectSeq(ComponentOrder, LAMBDA c : c \in DOMAIN d))

\* LookupNode()
NewLookupNode == <<>>

RECURSIVE SetPath(_, _, _)
SetPath(cur, components, value) ==
  IF Len(components) = 0 THEN SetKey(cur, EMPTY, value)
  ELSE LET component == Head(components)
           child == IF component \in DOMAIN cur THEN cur[component]
                    ELSE NewLookupNode
       IN SetKey(cur, component, SetPath(child, Tail(components), value))

\* A wrong __setitem__, used to test TreeMergeEquivalence: it forgets what
\* self already holds.
SetItemAlone(self, lookup, value) == SetPath(NewLookupNode, parse(lookup), value)

\* self[lookup] = value
__setitem__(self, lookup, value) == SetPath(self, parse(lookup), value)

RECURSIVE HasPath(_, _)
HasPath(cur, components) ==
  \/ Len(components) = 0
  \/ /\ Head(components) \in DOMAIN cur
     /\ HasPath(cur[Head(components)], Tail(components))

RECURSIVE GetPath(_, _)
GetPath(cur, components) ==
  IF Len(components) = 0 THEN cur
  ELSE GetPath(cur[Head(components)], Tail(components))

\* self[lookup]; a missing component raises KeyError
__getitem__(self, lookup) == GetPath(self, parse(lookup))

\* list(self.iteritems(lookup_stack)): <<lookup, value>> pairs
RECURSIVE iteritems(_, _)
RECURSIVE ItemsUnder(_, _, _)
ItemsUnder(self, lookup_stack, ks) ==
  Concat([i \in 1..Len(ks) |->
    IF ks[i] = EMPTY
    THEN << <<join(LOOKUP_SEP, lookup_stack), self[EMPTY]>> >>
    ELSE iteritems(self[ks[i]], Append(lookup_stack, ks[i]))])

iteritems(self, lookup_stack) == ItemsUnder(self, lookup_stack, Keys(self))

Range(s) == {s[i] : i \in 1..Len(s)}

\* self.to_dict(), as the set of its items
to_dict(self) == Range(iteritems(self, <<>>))

\* parsed, without its last component if that is a query term
StripQuery(parsed) ==
  IF is_query(parsed[Len(parsed)]) THEN SubSeq(parsed, 1, Len(parsed) - 1)
  ELSE parsed

RECURSIVE ConvertItems(_, _)
ConvertItems(items, lookups) ==
  IF Len(items) = 0 THEN lookups
  ELSE ConvertItems(
         Tail(items),
         __setitem__(lookups,
                     join(LOOKUP_SEP, StripQuery(parse(Head(items)[1]))),
                     GET))

convert_to_query_values_node(self) ==
  ConvertItems(iteritems(self, <<>>), NewLookupNode)

\* every row of rest with row[lookup] = value, for each value in turn
RECURSIVE Product(_, _)
Extend(rest, lookup, vs) ==
  Concat([i \in 1..Len(vs) |->
    [j \in 1..Len(rest) |-> SetKey(rest[j], lookup, vs[i])]])

\* itertools.product over the value lists of the lookups ks, each
\* combination made a LookupNode
Product(ks, lookup2values) ==
  IF Len(ks) = 0 THEN <<NewLookupNode>>
  ELSE Extend(Product(Tail(ks), lookup2values), Head(ks),
              lookup2values[Head(ks)])

\* self.values(obj)
RECURSIVE values(_, _, _)
ChildValues(child, lookup_objects, instance) ==
  Concat([i \in 1..Len(lookup_objects) |->
    values(child, lookup_objects[i], instance)])

values(self, obj, instance) ==
  Product(Keys(self),
          [lookup \in DOMAIN self |->
             IF lookup = EMPTY THEN values_list(lookup, obj, instance)
             ELSE ChildValues(self[lookup],
                              values_list(lookup, obj, instance), instance)])

\* The comparisons one (lookup, value) of a candidate row asks for: each
\* (query, query_value) stored under self[lookup], with 'exact' standing in
\* for an absent query.
Queries(queries, value) ==
  [k \in 1..Len(queries) |->
     [query |-> IF queries[k][1] = EMPTY THEN q_exact ELSE queries[k][1],
      query_value |-> queries[k][2], value |-> value, found |-> TRUE]]

ItemQueries(self, lookup, value) ==
  IF HasPath(self, parse(lookup))
  THEN Queries(iteritems(__getitem__(self, lookup), <<>>), value)
  ELSE << [query |-> q_exact, query_value |-> None, value |-> value,
           found |-> FALSE] >>

AllItemQueries(self, items) ==
  Concat([i \in 1..Len(items) |-> ItemQueries(self, items[i][1], items[i][2])])

\* the comparisons of one candidate row, in order
RowQueries(self, node) == AllItemQueries(self, iteritems(node, <<>>))

\* comparison_func([value]) for one of them
Outcome(q) ==
  IF ~q.found THEN "KeyError"
  ELSE comparison_func(q.query, LookupEvaluator(<<q.query, q.query_value>>),
                       <<q.value>>)

Outcomes(qs) == [k \in 1..Len(qs) |-> Outcome(qs[k])]

\* A wrong row test, used to test RowCoherence: one matching comparison is
\* enough for the row.
AnyComparisonMatches(self, node) == any(Outcomes(RowQueries(self, node)))

\* node_matches, or the exception a comparison raises
RowOutcome(self, node) == all(Outcomes(RowQueries(self, node)))

RowOutcomes(self, rows) == [r \in 1..Len(rows) |-> RowOutcome(self, rows[r])]

\* A wrong eval, used to test FanOutExistential: every row has to match.
EveryRowMatches(self, instance) ==
  all(RowOutcomes(self, values(convert_to_query_values_node(self),
                                PyObj(1), instance)))

\* LookupNode.eval(instance): the first row all of whose comparisons hold
LookupNode_eval(self, instance) ==
  any(RowOutcomes(self, values(convert_to_query_values_node(self),
                                PyObj(1), instance)))

\* how many elements of outs a loop runs that stops after the first
\* element different from go
Ran(outs, go) ==
  IF \E i \in DOMAIN outs : outs[i] # go
  THEN CHOOSE i \in DOMAIN outs : outs[i] # go /\ \A j \in 1..(i - 1) : outs[j] = go
  ELSE Len(outs)

\* the names eval passes to getattr(evaluator, '_' + query) for one row
QueryNames(qs, n) == {qs[k].query : k \in {j \in 1..n : qs[j].found}}

RowDispatched(qs) == QueryNames(qs, Ran(Outcomes(qs), "True"))

RowsDispatched(self, rows, n) ==
  UNION {RowDispatched(RowQueries(self, rows[r])) : r \in 1..n}

RowsRun(self, rows) == RowsDispatched(self, rows, Ran(RowOutcomes(self, rows), "False"))

\* the names one call of LookupNode.eval passes to getattr
Dispatched(self, instance) ==
  RowsRun(self, values(convert_to_query_values_node(self), PyObj(1), instance))

-----------------------------------------------------------------------------
(* class P(Q): a node is [connector, negated, children]; a child is a      *)
(* nested P, a (lookup, value) tuple, or anything else.                    *)

ChildP(node) == [kind |-> "P", node |-> node, lookup |-> <<>>, value |-> None]
ChildTuple(lookup, value) ==
  [kind |-> "tuple", node |-> <<>>, lookup |-> lookup, value |-> value]
ChildOther == [kind |-> "other", node |-> <<>>, lookup |-> <<>>, value |-> None]

\* Node(children=None, connector=connector, negated=negated)
Node(connector, negated) ==
  [connector |-> connector, negated |-> negated, children |-> <<>>]

EmptyP == Node("AND", FALSE)

\* P(**{lookup: value})
NewP(lookup, value) ==
  [connector |-> "AND", negated |-> FALSE,
   children |-> <<ChildTuple(lookup, value)>>]

\* Node.add(data, conn_type) on a node whose connector is conn_type: a
\* non-negated node with the same connector, or with one child, is
\* squashed into self; any other node becomes a child
add(self, data, conn_type) ==
  IF ~data.negated /\ (data.connector = conn_type \/ Len(data.children) = 1)
  THEN [self EXCEPT !.children = @ \o data.children]
  ELSE [self EXCEPT !.children = Append(@, ChildP(data))]

\* Q._combine(other, conn): self & other, self | other
_combine(self, other, conn) ==
  add(add(Node(conn, FALSE), self, conn), other, conn)

\* Q.__invert__(): ~self
__invert__(self) ==
  LET obj == add(Node("AND", FALSE), self, "AND")
  IN [obj EXCEPT !.negated = ~@]

\* list(eval_wrapper(children)): the nested P children in order, then the
\* LookupNode holding every tuple child; a child that is neither ends the
\* generator by raising ValueError
RECURSIVE eval_wrapper(_, _)
eval_wrapper(children, lookups) ==
  IF Len(children) = 0 THEN <<[kind |-> "LookupNode", node |-> lookups]>>
  ELSE LET child == Head(children)
       IN CASE child.kind = "P" ->
                 <<[kind |-> "P", node |-> child.node]>>
                   \o eval_wrapper(Tail(children), lookups)
            [] child.kind = "tuple" ->
                 eval_wrapper(Tail(children),
                              __setitem__(lookups, child.lookup, child.value))
            [] OTHER -> <<[kind |-> "ValueError", node |-> <<>>]>>

\* evaluators = {"AND": all, "OR": any}
evaluator(connector, outs) == IF connector = "AND" THEN all(outs) ELSE any(outs)

\* `not ret` if self.negated, else ret; an exception passes through
Negated(negated, result) ==
  IF result \notin {"True", "False"} THEN result
  ELSE IF negated THEN B(result = "False")
  ELSE result

\* P.eval(instance)
RECURSIVE P_eval(_, _)
ChildOutcomes(cs, instance) ==
  [i \in 1..Len(cs) |->
     CASE cs[i].kind = "P" -> P_eval(cs[i].node, instance)
       [] cs[i].kind = "LookupNode" -> LookupNode_eval(cs[i].node, instance)
       [] OTHER -> "ValueError"]

P_eval(self, instance) ==
  Negated(self.negated,
          evaluator(self.connector,
                    ChildOutcomes(eval_wrapper(self.children, NewLookupNode),
                                  instance)))

-----------------------------------------------------------------------------
(* Inputs: strings, lookups, instances.                                    *)

s_ali == Py(<<"a", "l", "i">>)
s_Alice == Py(<<"A", "l", "i", "c", "e">>)
s_ALICE == Py(<<"A", "L", "I", "C", "E">>)
s_alice == Py(<<"a", "l", "i", "c", "e">>)
s_Bob == Py(<<"B", "o", "b">>)
s_Carol == Py(<<"C", "a", "r", "o", "l">>)

\* a Wednesday
d_wed == PyDate(2024, 1, 3)

k_name__iexact == Py(<<"n", "a", "m", "e", "_", "_", "i", "e", "x", "a", "c", "t">>)
k_rel == Py(<<"r", "e", "l">>)
k_rel__val == Py(<<"r", "e", "l", "_", "_", "v", "a", "l">>)
k_rel__val__gte == Py(<<"r", "e", "l", "_", "_", "v", "a", "l", "_", "_", "g", "t", "e">>)
k_rel__a == Py(<<"r", "e", "l", "_", "_", "a">>)
k_rel__b == Py(<<"r", "e", "l", "_", "_", "b">>)
k_a__b == Py(<<"a", "_", "_", "b">>)
k_a__c == Py(<<"a", "_", "_", "c">>)

RECURSIVE SeqsUpTo(_, _)
SeqsUpTo(S, n) ==
  IF n = 0 THEN {<<>>}
  ELSE LET shorter == SeqsUpTo(S, n - 1)
       IN shorter \cup
            {Append(s, x) : s \in {t \in shorter : Len(t) = n - 1}, x \in S}

Value(v) == [kind |-> "value", vals |-> <<v>>]
Manager(vs) == [kind |-> "Manager", vals |-> vs]
DoesNotExist == [kind |-> "DoesNotExist", vals |-> <<>>]

\* the root instance: a name, a to-many relation rel, a to-one relation a
RootObject(name, rel, a) ==
  [f \in {c_name, c_rel, c_a} |->
     IF f = c_name THEN name ELSE IF f = c_rel THEN rel ELSE a]

\* an object behind rel: the fields val, a, b
RelatedObject(val, a, b) ==
  [f \in {c_val, c_a, c_b} |->
     Value(IF f = c_val THEN val ELSE IF f = c_a THEN a ELSE b)]

\* the object behind a: the to-many relations b and c
TargetObject(bs, cs) ==
  [f \in {c_b, c_c} |-> Manager(IF f = c_b THEN bs ELSE cs)]

\* object 1 is the root, object 2 the target of a, objects 3.. are behind rel
Instance(name, a, target, related) ==
  <<RootObject(Value(name),
               Manager([i \in 1..Len(related) |-> PyObj(2 + i)]), a),
    target>> \o related

NameInstances ==
  {Instance(n, Value(None), TargetObject(<<>>, <<>>), <<>>) :
     n \in {PyStr(s_ALICE), PyStr(s_Bob), PyStr(s_Carol), None}}

RelatedObjects ==
  { RelatedObject(PyInt(1), PyInt(1), PyInt(2)),
    RelatedObject(None, PyInt(2), PyInt(1)) }

RelInstances ==
  {Instance(None, Value(None), TargetObject(<<>>, <<>>), related) :
     related \in SeqsUpTo(RelatedObjects, MaxRelated)}

ManyValues == {<<>>, <<PyInt(1)>>, <<PyInt(1), PyInt(2)>>}

AInstances ==
  {Instance(None, Value(PyObj(2)), TargetObject(bs, cs), <<>>) :
     bs \in ManyValues, cs \in ManyValues}
    \cup {Instance(None, a, TargetObject(<<PyInt(1)>>, <<PyInt(2)>>), <<>>) :
            a \in {Value(None), DoesNotExist}}

PPairs == {<<k_name__iexact, PyStr(s_Alice)>>, <<k_name__iexact, PyStr(s_Bob)>>}

\* what a P node is given as a child
PChildren ==
  {ChildTuple(p[1], p[2]) : p \in PPairs}
    \cup {ChildP(NewP(p[1], p[2])) : p \in PPairs}
    \cup {ChildP(__invert__(NewP(p[1], p[2]))) : p \in PPairs}
    \cup {ChildOther}

TreePairs ==
  { <<k_rel__val, PyInt(1)>>, <<k_rel__val, PyInt(2)>>,
    <<k_rel__val__gte, PyInt(2)>>,
    <<k_rel__a, PyInt(1)>>, <<k_rel__a, PyInt(2)>>,
    <<k_rel__b, PyInt(1)>>, <<k_rel__b, PyInt(2)>>,
    <<k_rel, PyObj(3)>>,
    <<k_a__b, PyInt(1)>>, <<k_a__b, PyInt(2)>>,
    <<k_a__c, PyInt(1)>>, <<k_a__c, PyInt(2)>> }

EvLiterals ==
  { None, PyInt(4), PyInt(5), PyStr(s_ali), PyStr(s_Alice),
    PyList(<<PyInt(1), PyInt(10)>>), PyList(<<None, PyInt(5)>>) }

EvValues ==
  { None, PyInt(5), PyStr(s_ALICE), PyStr(s_alice), d_wed }

-----------------------------------------------------------------------------
(* The client's calls. The data (the instance, the values to compare) is   *)
(* drawn at the start; the calls build a P, a LookupNode or a              *)
(* LookupEvaluator and evaluate it.                                        *)

NoInstance == <<>>

Init ==
  /\ subject \in {"P", "LookupNode", "LookupEvaluator"}
  /\ dictorder \in IF subject = "LookupNode" THEN {"asc", "desc"} ELSE {"asc"}
  /\ mixedorder \in IF subject = "LookupEvaluator"
                   THEN {"bytype", "TypeError"} ELSE {"bytype"}
  /\ graph \in CASE subject = "P" -> NameInstances
                    [] subject = "LookupNode" -> RelInstances \cup AInstances
                    [] OTHER -> {NoInstance}
  /\ pred = EmptyP
  /\ ret = "none"
  /\ tree = NewLookupNode
  /\ tret = "none"
  /\ dispatched = {}
  /\ ev \in IF subject = "LookupEvaluator"
            THEN {LookupEvaluator(<<q_exact, value>>) : value \in EvLiterals}
            ELSE {LookupEvaluator(<<q_exact, None>>)}
  /\ args \in IF subject = "LookupEvaluator"
              THEN SeqsUpTo(EvValues, MaxValues) ELSE {<<>>}
  /\ out = "none"

\* Nested P children hold at most one child, a tuple.
Shallow(node) ==
  \A i \in DOMAIN node.children :
     node.children[i].kind = "P" =>
       /\ Len(node.children[i].node.children) <= 1
       /\ \A j \in DOMAIN node.children[i].node.children :
             node.children[i].node.children[j].kind = "tuple"

\* pred = P(**{lookup: value})
PNew ==
  /\ subject = "P"
  /\ \E p \in PPairs : pred' = NewP(p[1], p[2])
  /\ ret' = "none"
  /\ UNCHANGED <<subject, dictorder, mixedorder, graph, tree, tret, dispatched,
                 ev, args, out>>

\* pred = Node(connector=..., negated=...)
PNode ==
  /\ subject = "P"
  /\ \E connector \in {"AND", "OR"}, negated \in BOOLEAN :
       pred' = Node(connector, negated)
  /\ ret' = "none"
  /\ UNCHANGED <<subject, dictorder, mixedorder, graph, tree, tret, dispatched,
                 ev, args, out>>

\* pred.children.append(child)
PAppend ==
  /\ subject = "P"
  /\ Len(pred.children) < MaxChildren
  /\ \E child \in PChildren :
       pred' = [pred EXCEPT !.children = Append(@, child)]
  /\ ret' = "none"
  /\ UNCHANGED <<subject, dictorder, mixedorder, graph, tree, tret, dispatched,
                 ev, args, out>>

\* pred = pred & P(**{lookup: value}), pred = pred | P(**{lookup: value})
PCombine ==
  /\ subject = "P"
  /\ \E conn \in {"AND", "OR"}, p \in PPairs :
       LET other == NewP(p[1], p[2])
           obj == _combine(pred, other, conn)
       IN /\ Len(obj.children) <= MaxChildren
          /\ Shallow(obj)
          /\ pred' = obj
  /\ ret' = "none"
  /\ UNCHANGED <<subject, dictorder, mixedorder, graph, tree, tret, dispatched,
                 ev, args, out>>

\* pred = ~pred
PInvert ==
  /\ subject = "P"
  /\ Shallow(__invert__(pred))
  /\ pred' = __invert__(pred)
  /\ ret' = "none"
  /\ UNCHANGED <<subject, dictorder, mixedorder, graph, tree, tret, dispatched,
                 ev, args, out>>

\* ret = pred.eval(graph)
PEval ==
  /\ subject = "P"
  /\ ret' = P_eval(pred, graph)
  /\ UNCHANGED <<subject, dictorder, mixedorder, graph, pred, tree, tret,
                 dispatched, ev, args, out>>

\* tree = LookupNode()
TreeNew ==
  /\ subject = "LookupNode"
  /\ tree' = NewLookupNode
  /\ tret' = "none"
  /\ dispatched' = {}
  /\ UNCHANGED <<subject, dictorder, mixedorder, graph, pred, ret,
                 ev, args, out>>

\* tree[lookup] = value
TreeSetItem ==
  /\ subject = "LookupNode"
  /\ \E p \in TreePairs :
       LET next == __setitem__(tree, p[1], p[2])
       IN /\ Cardinality(to_dict(next)) <= MaxLookups
          /\ tree' = next
  /\ tret' = "none"
  /\ dispatched' = {}
  /\ UNCHANGED <<subject, dictorder, mixedorder, graph, pred, ret,
                 ev, args, out>>

\* tret = tree.eval(graph)
TreeEval ==
  /\ subject = "LookupNode"
  /\ tret' = LookupNode_eval(tree, graph)
  /\ dispatched' = Dispatched(tree, graph)
  /\ UNCHANGED <<subject, dictorder, mixedorder, graph, pred, ret, tree,
                 ev, args, out>>

\* ev = LookupEvaluator((query, query_value))
NewEvaluator ==
  /\ subject = "LookupEvaluator"
  /\ \E query \in QUERY_TERMS : ev' = LookupEvaluator(<<query, ev.value>>)
  /\ out' = "none"
  /\ UNCHANGED <<subject, dictorder, mixedorder, graph, pred, ret,
                 tree, tret, dispatched, args>>

\* out = getattr(ev, '_' + ev.lookup)(args)
Compare ==
  /\ subject = "LookupEvaluator"
  /\ out' = comparison_func(ev.lookup, ev, args)
  /\ UNCHANGED <<subject, dictorder, mixedorder, graph, pred, ret,
                 tree, tret, dispatched, ev, args>>

Next ==
  \/ PNew \/ PNode \/ PAppend \/ PCombine \/ PInvert \/ PEval
  \/ TreeNew \/ TreeSetItem \/ TreeEval
  \/ NewEvaluator \/ Compare

Spec == Init /\ [][Next]_vars

-----------------------------------------------------------------------------
(* Properties.                                                             *)

\* the single-lookup predicates P(name__iexact=...)
Predicates == {NewP(p[1], p[2]) : p \in PPairs}

\* a node with the given connector and negation over the predicates cs
NodeOver(connector, negated, cs) ==
  [connector |-> connector, negated |-> negated,
   children |-> [i \in 1..Len(cs) |-> ChildP(cs[i])]]

\* the objects behind the to-many relation rel of the instance
Related(instance) == Range(instance[1][c_rel].vals)

\* the field of a related object
Field(instance, r, component) == instance[r.v[1]][component].vals[1]

\* a lookup tree holding one lookup
SingleTree(lookup, value) == __setitem__(NewLookupNode, lookup, value)

\* a lookup tree holding two lookups
MergedTree(lookup1, v1, lookup2, v2) ==
  __setitem__(__setitem__(NewLookupNode, lookup1, v1), lookup2, v2)

\* the literals the lookup trees compare with
TreeLiterals == {PyInt(1), PyInt(2)}

\* C1: A | B of two single-lookup predicates matches an instance iff A
\* matches it or B matches it (name__iexact='Alice' | name__iexact='Bob'
\* matches the name 'ALICE' and does not match 'Carol').
OrOfTwoLookups ==
  \A A \in Predicates, C \in Predicates :
     (pred = _combine(A, C, "OR") /\ ret # "none")
       => ret = B(P_eval(A, graph) = "True" \/ P_eval(C, graph) = "True")

\* C2: a node that is not negated and has no children evaluates to true
\* under AND and to false under OR, for every instance.
ConnectorIdentity ==
  (ret # "none" /\ pred.children = <<>> /\ ~pred.negated)
    => ret = (IF pred.connector = "AND" THEN "True" ELSE "False")

\* C3: for predicates A and C, the negated AND node over [A, C] evaluates
\* as the OR node over [~A, ~C], and the negated OR node over [A, C] as the
\* AND node over [~A, ~C].
DeMorgan ==
  \A A \in Predicates, C \in Predicates :
     /\ (pred = NodeOver("AND", TRUE, <<A, C>>) /\ ret # "none")
          => ret = P_eval(NodeOver("OR", FALSE,
                                   <<__invert__(A), __invert__(C)>>), graph)
     /\ (pred = NodeOver("OR", TRUE, <<A, C>>) /\ ret # "none")
          => ret = P_eval(NodeOver("AND", FALSE,
                                   <<__invert__(A), __invert__(C)>>), graph)

\* C4: when rel resolves to at least one related object, the tree holding
\* the single lookup rel__val -> L matches iff some related object r has
\* r.val = L; not all of them have to.
FanOutExistential ==
  \A L \in TreeLiterals :
     (tree = SingleTree(k_rel__val, L) /\ tret # "none"
        /\ Related(graph) # {})
       => tret = B(\E r \in Related(graph) : Field(graph, r, c_val) = L)

\* rel__val -> 1 matched although one related object has another val
FanOutOneOfSeveral ==
  /\ tree = SingleTree(k_rel__val, PyInt(1))
  /\ tret = "True"
  /\ \E r \in Related(graph) : Field(graph, r, c_val) # PyInt(1)

\* C5: when a resolves to exactly one value, the tree holding a__b -> v1
\* and a__c -> v2 evaluates to the conjunction of what the trees
\* {a__b -> v1} and {a__c -> v2} evaluate to, however many values b and c
\* have.
TreeMergeEquivalence ==
  \A v1 \in TreeLiterals, v2 \in TreeLiterals :
     (tree = MergedTree(k_a__b, v1, k_a__c, v2) /\ tret # "none"
        /\ Len(values_list(c_a, PyObj(1), graph)) = 1)
       => tret = B(/\ LookupNode_eval(SingleTree(k_a__b, v1), graph) = "True"
                   /\ LookupNode_eval(SingleTree(k_a__c, v2), graph) = "True")

\* the merged tree matched an instance whose b has several values
MergedTreeMatches ==
  /\ tree = MergedTree(k_a__b, PyInt(1), k_a__c, PyInt(2))
  /\ tret = "True"
  /\ graph[1][c_a] = Value(PyObj(2))
  /\ Len(graph[2][c_b].vals) > 1

\* C6: on the values [None] every comparison but isnull returns false,
\* whatever the literal; isnull returns true for a truthy literal and
\* false for a falsy one.
NullNeverMatches ==
  (args = <<None>> /\ out # "none")
    => out = IF ev.lookup = q_isnull THEN B(Truthy(ev.value)) ELSE "False"

\* C7: on non-null strings, icontains with a string literal matches iff the
\* lower-cased literal is a substring of a lower-cased value, and contains
\* iff the literal is a substring of a value.
IcontainsIgnoresCase ==
  (out # "none" /\ ev.value.t = "str"
     /\ \A i \in DOMAIN args : args[i].t = "str")
    => /\ ev.lookup = q_icontains
            => out = B(\E i \in DOMAIN args :
                          IsSubstring(lower(ev.value.v), lower(args[i].v)))
       /\ ev.lookup = q_contains
            => out = B(\E i \in DOMAIN args :
                          IsSubstring(ev.value.v, args[i].v))

\* C8: eval of a node that has a child which is neither a predicate nor a
\* (lookup, value) tuple raises ValueError, whatever the connector, the
\* instance and the other children.
MalformedChildAborts ==
  (ret # "none" /\ \E i \in DOMAIN pred.children :
                      pred.children[i].kind = "other")
    => ret = "ValueError"

\* C9: the tree holding rel__a -> v1 and rel__b -> v2 matches iff one
\* related object r has r.a = v1 and r.b = v2.
RowCoherence ==
  \A v1 \in TreeLiterals, v2 \in TreeLiterals :
     (tree = MergedTree(k_rel__a, v1, k_rel__b, v2) /\ tret # "none")
       => tret = B(\E r \in Related(graph) :
                      /\ Field(graph, r, c_a) = v1
                      /\ Field(graph, r, c_b) = v2)

\* no match, although one related object has the a and another one the b
RowsNotMixed ==
  \E v1 \in TreeLiterals, v2 \in TreeLiterals :
     /\ tree = MergedTree(k_rel__a, v1, k_rel__b, v2)
     /\ tret = "False"
     /\ \E r \in Related(graph) : Field(graph, r, c_a) = v1
     /\ \E r \in Related(graph) : Field(graph, r, c_b) = v2

\* C10: every name LookupNode.eval looks up as a comparison function is a
\* query term ('exact' when the lookup has none), also when one stored
\* lookup is a prefix of another, as rel and rel__val.
DispatchedAreQueryTerms ==
  tret # "none" => dispatched \subseteq QUERY_TERMS

====
